---- MODULE Spec2Model ----
(***************************************************************************)
(* A model of bin2s.py: sanitize_identifier, bin2s and the command-line    *)
(* driver under `if __name__ == '__main__'`.                               *)
(*                                                                         *)
(* Text is a sequence of one-character strings, so that formatting,       *)
(* dedenting and the reading back of the written text are computed, and    *)
(* bytes are the integers 0..255.                                          *)
(***************************************************************************)
EXTENDS Integers, Sequences, FiniteSets, TLC

VARIABLES
    pc,           \* position of the running code
    files,        \* the input streams: [name, data, start, pos, closed]
    idx,          \* the stream bin2s works on (the driver's loop variable)
    alignment,    \* bin2s argument
    line_length,  \* bin2s argument
    identifier,   \* bin2s argument, reassigned by line 131
    cur_pos,      \* bin2s local
    size,         \* bin2s local
    remaining,    \* bin2s local
    output,       \* the text written to the output stream
    stderr,       \* the warnings written to sys.stderr
    result,       \* what the last bin2s call returned: "none", "True", "False"
    raised,       \* the message of the exception raised, "" when none
    in_calls,     \* the methods called on input streams: <<index, method>>
    calls,        \* the bin2s invocations of the driver, by file index
    to_stdout,    \* driver: output is sys.stdout (no -o)
    out_closed,   \* driver: output.close() was called
    raw,          \* the name as it was passed, before sanitizing
    san_out       \* what successive sanitize_identifier calls returned

vars == <<pc, files, idx, alignment, line_length, identifier, cur_pos, size,
          remaining, output, stderr, result, raised, in_calls, calls,
          to_stdout, out_closed, raw, san_out>>

(***************************************************************************)
(* Bounds of the model.                                                    *)
(***************************************************************************)
MaxNameLen == 3     \* longest string given to sanitize_identifier alone
MaxData == 3        \* longest input stream of a direct bin2s call
MaxLine == 2        \* largest line_length
MaxFiles == 2       \* most files on the driver's command line

(***************************************************************************)
(* Characters.                                                             *)
(***************************************************************************)
Letters ==
    {"a","b","c","d","e","f","g","h","i","j","k","l","m",
     "n","o","p","q","r","s","t","u","v","w","x","y","z",
     "A","B","C","D","E","F","G","H","I","J","K","L","M",
     "N","O","P","Q","R","S","T","U","V","W","X","Y","Z"}

DigitChars == <<"0","1","2","3","4","5","6","7","8","9">>

Digits == {DigitChars[i] : i \in 1..10}

Separators == {".", "/", "-"}

\* The class [A-Za-z0-9_./-] of line 56.
LegalChars == Letters \cup Digits \cup {"_"} \cup Separators

\* The characters strings are drawn from: a lower and an upper case letter,
\* a digit, the underscore, the three separators and two illegal characters.
NameChars == {"a", "Z", "7", "_", ".", "/", "-", "$", " "}

Spaces(n) == [i \in 1..n |-> " "]

Min(a, b) == IF a < b THEN a ELSE b

RECURSIVE Concat(_)
\* ''.join(seqs)
Concat(seqs) ==
    IF seqs = <<>> THEN <<>> ELSE Head(seqs) \o Concat(Tail(seqs))

RECURSIVE Join(_, _)
\* sep.join(seqs)
Join(sep, seqs) ==
    IF seqs = <<>> THEN <<>>
    ELSE IF Len(seqs) = 1 THEN seqs[1]
    ELSE seqs[1] \o sep \o Join(sep, Tail(seqs))

RECURSIVE Split(_, _)
\* text.split(sep) for a one-character sep
Split(text, sep) ==
    IF \A i \in 1..Len(text) : text[i] # sep THEN <<text>>
    ELSE LET k == CHOOSE i \in 1..Len(text) :
                      text[i] = sep /\ \A j \in 1..(i - 1) : text[j] # sep
         IN  <<SubSeq(text, 1, k - 1)>> \o Split(SubSeq(text, k + 1, Len(text)), sep)

RECURSIVE SeqsOver(_, _)
\* All sequences over S of length n.
SeqsOver(S, n) ==
    IF n = 0 THEN {<<>>}
    ELSE {Append(s, c) : s \in SeqsOver(S, n - 1), c \in S}

SeqsUpTo(S, n) == UNION {SeqsOver(S, k) : k \in 0..n}

(***************************************************************************)
(* sanitize_identifier, lines 25-61.                                       *)
(***************************************************************************)
\* re.sub(r'[^A-Za-z0-9_./-]', '', s), line 56
StripIllegal(s) == SelectSeq(s, LAMBDA c : c \in LegalChars)

\* re.sub(r'[./-]', '_', s), line 61
ReplaceSeparators(s) ==
    [i \in 1..Len(s) |-> IF s[i] \in Separators THEN "_" ELSE s[i]]

\* Line 61 with the digit test left out: nothing is prepended.
PrependUnderscore_never(s) == s

\* Line 61 with \w for \d: an underscore is prepended to every result.
PrependUnderscore_always(s) == <<"_">> \o s

\* re.sub(r'^(\d)', '_\\1', s), line 61
PrependUnderscore(s) ==
    IF Len(s) > 0 /\ s[1] \in Digits THEN <<"_">> \o s ELSE s

NoLegalCharacters == "identifier doesn't contain any legal characters"

\* Lines 56-61 with the test of lines 58-59 left out.
sanitize_identifier_unchecked(s) ==
    [raised |-> "", value |-> PrependUnderscore(ReplaceSeparators(StripIllegal(s)))]

\* What a call returns: the value, or the message of the ValueError raised.
sanitize_identifier(s) ==
    LET stripped == StripIllegal(s)
    IN  IF Len(stripped) = 0
        THEN [raised |-> NoLegalCharacters, value |-> <<>>]
        ELSE [raised |-> "",
              value |-> PrependUnderscore(ReplaceSeparators(stripped))]

(***************************************************************************)
(* Formatting: the % conversions of lines 151, 156 and 163.                *)
(***************************************************************************)
RECURSIVE DecimalDigits(_)
\* The decimal digits of n >= 0.
DecimalDigits(n) ==
    IF n < 10 THEN <<DigitChars[n + 1]>>
    ELSE DecimalDigits(n \div 10) \o <<DigitChars[(n % 10) + 1]>>

\* '%d' % n; Python treats %u and %lu as %d.
FormatD(n) == IF n < 0 THEN <<"-">> \o DecimalDigits(-n) ELSE DecimalDigits(n)

\* '%3u' % b, line 156: right-justified in a field at least 3 wide.
Format3u(b) ==
    LET s == FormatD(b)
    IN  IF Len(s) < 3 THEN Spaces(3 - Len(s)) \o s ELSE s

(***************************************************************************)
(* textwrap.dedent, called at lines 144 and 159.                           *)
(***************************************************************************)
IsWhitespace(c) == c \in {" ", "\t"}

\* A line the pattern '^[ \t]+$' empties (an empty line stays empty).
WhitespaceOnly(line) == \A i \in 1..Len(line) : IsWhitespace(line[i])

\* The leading whitespace of a line.
Indent(line) ==
    LET n == Cardinality({i \in 1..Len(line) :
                             \A j \in 1..i : IsWhitespace(line[j])})
    IN  SubSeq(line, 1, n)

\* The longest common prefix of two strings.
CommonPrefix(a, b) ==
    LET n == Cardinality({i \in 1..Min(Len(a), Len(b)) :
                             \A j \in 1..i : a[j] = b[j]})
    IN  SubSeq(a, 1, n)

RECURSIVE Margin(_)
\* The common margin of a non-empty sequence of indents.
Margin(indents) ==
    IF Len(indents) = 1 THEN indents[1]
    ELSE CommonPrefix(indents[1], Margin(Tail(indents)))

dedent(text) ==
    LET lines == Split(text, "\n")
        emptied == [i \in 1..Len(lines) |->
                       IF WhitespaceOnly(lines[i]) THEN <<>> ELSE lines[i]]
        indents == [i \in 1..Len(emptied) |-> Indent(emptied[i])]
        shown == SelectSeq(emptied, LAMBDA l : l # <<>>)
        margin == IF shown = <<>> THEN <<>>
                  ELSE Margin([i \in 1..Len(shown) |-> Indent(shown[i])])
        strip(l) == IF l = <<>> THEN l ELSE SubSeq(l, Len(margin) + 1, Len(l))
    IN  Join(<<"\n">>, [i \in 1..Len(emptied) |-> strip(emptied[i])])

(***************************************************************************)
(* The text bin2s writes, lines 141-164.                                   *)
(***************************************************************************)
\* The template of lines 144-151 with %(align)d and %(ident)s substituted.
PreambleTemplate(align, ident) ==
    Spaces(20) \o <<".","s","e","c","t","i","o","n"," ",".","r","o","d","a","t","a","\n">>
    \o Spaces(20) \o <<".","b","a","l","i","g","n"," ">> \o FormatD(align) \o <<"\n">>
    \o Spaces(20) \o <<".","g","l","o","b","a","l"," ">> \o ident \o <<"\n">>
    \o Spaces(20) \o <<".","g","l","o","b","a","l"," ">> \o ident \o <<"_","e","n","d","\n">>
    \o Spaces(20) \o <<".","g","l","o","b","a","l"," ">> \o ident \o <<"_","s","i","z","e","\n">>
    \o <<"\n">>
    \o Spaces(18) \o ident \o <<":">>

\* Lines 159-164 with the size line put before the end label.
TrailerTemplate_size_first(ident, sz) ==
    <<"\n">>
    \o Spaces(20) \o <<".","a","l","i","g","n","\n">>
    \o Spaces(18) \o ident \o <<"_","s","i","z","e",":"," ",".","i","n","t"," ">> \o FormatD(sz)
    \o <<"\n","\n">>
    \o Spaces(18) \o ident \o <<"_","e","n","d",":">>

\* The template of lines 159-164 with %(ident)s and %(size)lu substituted.
TrailerTemplate(ident, sz) ==
    <<"\n">>
    \o Spaces(18) \o ident \o <<"_","e","n","d",":","\n">>
    \o <<"\n">>
    \o Spaces(20) \o <<".","a","l","i","g","n","\n">>
    \o Spaces(18) \o ident \o <<"_","s","i","z","e",":"," ",".","i","n","t"," ">> \o FormatD(sz)

BytePrefix == <<" "," ",".","b","y","t","e"," ">>

\* '  .byte ' + ','.join(['%3u' % b for b in read_bytes]), line 156
ByteLine(read_bytes) ==
    BytePrefix \o Join(<<",">>, [i \in 1..Len(read_bytes) |-> Format3u(read_bytes[i])])

\* fprint, lines 141-142: print(string, end='\n', file=output)
fprint(out, string) == out \o string \o <<"\n">>

(***************************************************************************)
(* The input stream (io.BytesIO, or a file opened 'rb').                   *)
(***************************************************************************)
\* input.read(n): the bytes from the position on, at most n of them.
read(f, n) == SubSeq(f.data, f.pos + 1, Min(f.pos + n, Len(f.data)))

\* os.path.basename, lines 18 and 234: what follows the last '/'.
basename(path) ==
    LET parts == Split(path, "/") IN parts[Len(parts)]

(***************************************************************************)
(* bin2s, lines 64-166, one action per stretch of straight-line code.      *)
(***************************************************************************)
AlignmentMessage == "alignment must be greater than 0"
LineLengthMessage == "line_length must be greater than 0"

\* Lines 126-127 alone: line_length is not checked.
bin2s_check_alignment_only ==
    /\ pc = "bin2s"
    /\ IF ~(alignment > 0)
       THEN raised' = AlignmentMessage /\ pc' = "raised"
       ELSE raised' = raised /\ pc' = "sanitize"
    /\ UNCHANGED <<files, idx, alignment, line_length, identifier, cur_pos, size,
                   remaining, output, stderr, result, in_calls, calls,
                   to_stdout, out_closed, raw, san_out>>

\* Lines 126-129: the arguments are checked before anything else.
bin2s_check ==
    /\ pc = "bin2s"
    /\ IF ~(alignment > 0)
       THEN raised' = AlignmentMessage /\ pc' = "raised"
       ELSE IF ~(line_length > 0)
       THEN raised' = LineLengthMessage /\ pc' = "raised"
       ELSE raised' = raised /\ pc' = "sanitize"
    /\ UNCHANGED <<files, idx, alignment, line_length, identifier, cur_pos, size,
                   remaining, output, stderr, result, in_calls, calls,
                   to_stdout, out_closed, raw, san_out>>

\* Line 131: identifier = sanitize_identifier(identifier).
bin2s_sanitize ==
    /\ pc = "sanitize"
    /\ LET r == sanitize_identifier(identifier)
       IN  IF r.raised # ""
           THEN raised' = r.raised /\ pc' = "raised" /\ UNCHANGED identifier
           ELSE identifier' = r.value /\ pc' = "measure" /\ UNCHANGED raised
    /\ UNCHANGED <<files, idx, alignment, line_length, cur_pos, size,
                   remaining, output, stderr, result, in_calls, calls,
                   to_stdout, out_closed, raw, san_out>>

\* Lines 133-139 with input.seek(0) for input.seek(cur_pos).
bin2s_measure_rewind ==
    /\ pc = "measure"
    /\ LET f == files[idx]
           told == f.pos                  \* cur_pos = input.tell()
           atEnd == Len(f.data)           \* input.seek(0, 2); input.tell()
           sz == atEnd - told
       IN  /\ cur_pos' = told
           /\ size' = sz
           /\ files' = [files EXCEPT ![idx].pos = 0]
           /\ in_calls' = in_calls \o <<<<idx, "tell">>, <<idx, "seek">>,
                                        <<idx, "tell">>, <<idx, "seek">>>>
           /\ IF sz = 0
              THEN result' = "False" /\ pc' = "returned"
              ELSE result' = result /\ pc' = "preamble"
    /\ UNCHANGED <<idx, alignment, line_length, identifier, remaining, output,
                   stderr, raised, calls, to_stdout, out_closed, raw, san_out>>

\* Lines 133-136 without the return of lines 138-139.
bin2s_measure_no_return ==
    /\ pc = "measure"
    /\ LET f == files[idx]
           told == f.pos                  \* cur_pos = input.tell()
           atEnd == Len(f.data)           \* input.seek(0, 2); input.tell()
           sz == atEnd - told
       IN  /\ cur_pos' = told
           /\ size' = sz
           /\ files' = [files EXCEPT ![idx].pos = told]   \* input.seek(cur_pos)
           /\ in_calls' = in_calls \o <<<<idx, "tell">>, <<idx, "seek">>,
                                        <<idx, "tell">>, <<idx, "seek">>>>
           /\ result' = result
           /\ pc' = "preamble"
    /\ UNCHANGED <<idx, alignment, line_length, identifier, remaining, output,
                   stderr, raised, calls, to_stdout, out_closed, raw, san_out>>

\* Lines 133-139: the number of bytes from the position to the end; the
\* position is put back, and an empty payload returns False.
bin2s_measure ==
    /\ pc = "measure"
    /\ LET f == files[idx]
           told == f.pos                  \* cur_pos = input.tell()
           atEnd == Len(f.data)           \* input.seek(0, 2); input.tell()
           sz == atEnd - told
       IN  /\ cur_pos' = told
           /\ size' = sz
           /\ files' = [files EXCEPT ![idx].pos = told]   \* input.seek(cur_pos)
           /\ in_calls' = in_calls \o <<<<idx, "tell">>, <<idx, "seek">>,
                                        <<idx, "tell">>, <<idx, "seek">>>>
           /\ IF sz = 0
              THEN result' = "False" /\ pc' = "returned"
              ELSE result' = result /\ pc' = "preamble"
    /\ UNCHANGED <<idx, alignment, line_length, identifier, remaining, output,
                   stderr, raised, calls, to_stdout, out_closed, raw, san_out>>

\* Lines 144-153: the preamble and the start label; remaining = size.
bin2s_preamble ==
    /\ pc = "preamble"
    /\ output' = fprint(output, dedent(PreambleTemplate(alignment, identifier)))
    /\ remaining' = size
    /\ pc' = "loop"
    /\ UNCHANGED <<files, idx, alignment, line_length, identifier, cur_pos, size,
                   stderr, result, raised, in_calls, calls,
                   to_stdout, out_closed, raw, san_out>>

\* Lines 154-157 reading one byte more than line_length.
bin2s_loop_one_more ==
    /\ pc = "loop"
    /\ remaining > 0
    /\ LET read_bytes == read(files[idx], line_length + 1)
       IN  /\ files' = [files EXCEPT ![idx].pos = @ + Len(read_bytes)]
           /\ in_calls' = Append(in_calls, <<idx, "read">>)
           /\ output' = fprint(output, ByteLine(read_bytes))
           /\ remaining' = remaining - Len(read_bytes)
    /\ UNCHANGED <<pc, idx, alignment, line_length, identifier, cur_pos, size,
                   stderr, result, raised, calls,
                   to_stdout, out_closed, raw, san_out>>

\* Lines 154-157: one turn of the loop, one line of at most line_length bytes.
bin2s_loop ==
    /\ pc = "loop"
    /\ remaining > 0
    /\ LET read_bytes == read(files[idx], line_length)
       IN  /\ files' = [files EXCEPT ![idx].pos = @ + Len(read_bytes)]
           /\ in_calls' = Append(in_calls, <<idx, "read">>)
           /\ output' = fprint(output, ByteLine(read_bytes))
           /\ remaining' = remaining - Len(read_bytes)
    /\ UNCHANGED <<pc, idx, alignment, line_length, identifier, cur_pos, size,
                   stderr, result, raised, calls,
                   to_stdout, out_closed, raw, san_out>>

\* Lines 154 and 159-166: the loop ends; the end label, .align and the size.
bin2s_trailer ==
    /\ pc = "loop"
    /\ ~(remaining > 0)
    /\ output' = fprint(output, dedent(TrailerTemplate(identifier, size)))
    /\ result' = "True"
    /\ pc' = "returned"
    /\ UNCHANGED <<files, idx, alignment, line_length, identifier, cur_pos, size,
                   remaining, stderr, raised, in_calls, calls,
                   to_stdout, out_closed, raw, san_out>>

bin2s ==
    \/ bin2s_check
    \/ bin2s_sanitize
    \/ bin2s_measure
    \/ bin2s_preamble
    \/ bin2s_loop
    \/ bin2s_trailer

(***************************************************************************)
(* A direct call of bin2s, as in the doctest of lines 100-122.             *)
(***************************************************************************)
\* Byte values of one, two and three decimal digits.
ByteVals == {0, 72, 255}

\* Argument values around the limit of lines 126-129, and the default 4.
Alignments == {-1, 0, 4}

LineLengths == {-1, 0} \cup (1..MaxLine)

\* Names given to a direct call: no legal character, a plain name, a name
\* that starts with a digit and holds a separator.
CallNames == {<<"$">>, <<"a">>, <<"4",".","c">>}

\* An open stream: its bytes, the position it was handed over at (start)
\* and the position it is at (pos).
Stream(name, data, pos) ==
    [name |-> name, data |-> data, start |-> pos, pos |-> pos, closed |-> FALSE]

\* The call bin2s('hello_world', BytesIO(b'Hello World'), output) of line 106.
HelloName == <<"h","e","l","l","o","_","w","o","r","l","d">>
HelloBytes == <<72, 101, 108, 108, 111, 32, 87, 111, 114, 108, 100>>

Idle ==
    /\ cur_pos = 0
    /\ size = 0
    /\ remaining = 0
    /\ output = <<>>
    /\ stderr = <<>>
    /\ result = "none"
    /\ raised = ""
    /\ in_calls = <<>>
    /\ calls = <<>>
    /\ out_closed = FALSE
    /\ san_out = <<>>

Init ==
    /\ pc = "bin2s"
    /\ idx = 1
    /\ \/ \E data \in SeqsUpTo(ByteVals, MaxData) : \E pos \in 0..Len(data) :
             /\ files = <<Stream(<<>>, data, pos)>>
             /\ raw \in CallNames
             /\ alignment \in Alignments
             /\ line_length \in LineLengths
       \/ /\ files = <<Stream(<<>>, HelloBytes, 0)>>
          /\ raw = HelloName
          /\ alignment = 4
          /\ line_length = 16
    /\ identifier = raw
    /\ to_stdout = TRUE
    /\ Idle

Next == bin2s

Spec == Init /\ [][Next]_vars

(***************************************************************************)
(* The command-line driver, lines 169-242.                                 *)
(***************************************************************************)
\* basename(sys.argv[0]), line 226
prog_name == <<"b","i","n","2","s",".","p","y">>

\* '%r' % s for a string with no quote, backslash or control character.
repr(s) == <<"'">> \o s \o <<"'">>

\* The line of lines 230-231.
GeneratedBy ==
    <<"/","*"," ","G","e","n","e","r","a","t","e","d"," ","b","y"," ">> \o prog_name
    \o <<" ","-"," ","p","l","e","a","s","e"," ","d","o","n","'","t"," ",
         "e","d","i","t"," ","m","a","n","u","a","l","l","y"," ","*","/">>

\* The line of lines 236-238.
Warning(name) ==
    prog_name
    \o <<":"," ","w","a","r","n","i","n","g",":"," ","s","k","i","p","p","i","n","g"," ",
         "e","m","p","t","y"," ","f","i","l","e"," ">>
    \o repr(name)

\* Lines 226-231: the output is chosen and the heading comment printed.
main_header ==
    /\ pc = "main"
    /\ output' = fprint(output, GeneratedBy)
    /\ pc' = "for"
    /\ UNCHANGED <<files, idx, alignment, line_length, identifier, cur_pos, size,
                   remaining, stderr, result, raised, in_calls, calls,
                   to_stdout, out_closed, raw, san_out>>

\* Lines 233-235: the next file is handed to bin2s under its base name.
main_call ==
    /\ pc = "for"
    /\ idx <= Len(files)
    /\ raw' = basename(files[idx].name)
    /\ identifier' = basename(files[idx].name)
    /\ calls' = Append(calls, idx)
    /\ result' = "none"
    /\ pc' = "bin2s"
    /\ UNCHANGED <<files, idx, alignment, line_length, cur_pos, size,
                   remaining, output, stderr, raised, in_calls,
                   to_stdout, out_closed, san_out>>

\* Lines 234-239 with the loop left at the first empty file.
main_after_break ==
    /\ pc = "returned"
    /\ stderr' = IF result = "False"
                 THEN fprint(stderr, Warning(files[idx].name))
                 ELSE stderr
    /\ files' = [files EXCEPT ![idx].closed = TRUE]
    /\ idx' = IF result = "False" THEN Len(files) + 1 ELSE idx + 1
    /\ pc' = "for"
    /\ UNCHANGED <<alignment, line_length, identifier, cur_pos, size,
                   remaining, output, result, raised, in_calls, calls,
                   to_stdout, out_closed, raw, san_out>>

\* Lines 234-239: bin2s returned; an empty file is warned about, the file is
\* closed and the loop goes on.
main_after ==
    /\ pc = "returned"
    /\ stderr' = IF result = "False"
                 THEN fprint(stderr, Warning(files[idx].name))
                 ELSE stderr
    /\ files' = [files EXCEPT ![idx].closed = TRUE]
    /\ idx' = idx + 1
    /\ pc' = "for"
    /\ UNCHANGED <<alignment, line_length, identifier, cur_pos, size,
                   remaining, output, result, raised, in_calls, calls,
                   to_stdout, out_closed, raw, san_out>>

\* Lines 233 and 241-242: no file is left; the output file is closed.
main_close ==
    /\ pc = "for"
    /\ idx > Len(files)
    /\ out_closed' = ~to_stdout
    /\ pc' = "exit"
    /\ UNCHANGED <<files, idx, alignment, line_length, identifier, cur_pos, size,
                   remaining, output, stderr, result, raised, in_calls, calls,
                   to_stdout, raw, san_out>>

\* File names of the command line: a path with a directory and an extension,
\* a name that starts with a digit, a name with no legal character.
FileNames == {<<"g","/","a",".","b">>, <<"4">>, <<"$">>}

\* File contents: an empty file, one byte, three bytes.
FileData == {<<>>, <<72>>, <<0, 255, 7>>}

\* The files argparse.FileType('rb') opened, lines 209-212.
OpenedFiles == {Stream(n, d, 0) : n \in FileNames, d \in FileData}

\* The state after parser.parse_args(), line 224: positive_int (lines
\* 170-177) lets only values > 0 through.
DriverInit ==
    /\ pc = "main"
    /\ idx = 1
    /\ \E n \in 1..MaxFiles : files \in SeqsOver(OpenedFiles, n)
    /\ alignment \in {1, 4}
    /\ line_length \in 1..MaxLine
    /\ to_stdout \in BOOLEAN
    /\ raw = <<>>
    /\ identifier = <<>>
    /\ Idle

DriverNext ==
    \/ main_header
    \/ main_call
    \/ bin2s
    \/ main_after
    \/ main_close

DriverSpec == DriverInit /\ [][DriverNext]_vars

(***************************************************************************)
(* sanitize_identifier called on its own, and again on what it returned.   *)
(***************************************************************************)
sanitize_call ==
    /\ pc = "sanitize_identifier"
    /\ Len(san_out) < 2
    /\ san_out # <<>> => san_out[Len(san_out)].raised = ""
    /\ LET arg == IF san_out = <<>> THEN raw ELSE san_out[Len(san_out)].value
       IN  san_out' = Append(san_out, sanitize_identifier(arg))
    /\ UNCHANGED <<pc, files, idx, alignment, line_length, identifier, cur_pos, size,
                   remaining, output, stderr, result, raised, in_calls, calls,
                   to_stdout, out_closed, raw>>

SanitizeInit ==
    /\ pc = "sanitize_identifier"
    /\ raw \in SeqsUpTo(NameChars, MaxNameLen)
    /\ files = <<>>
    /\ idx = 1
    /\ alignment = 4
    /\ line_length = 16
    /\ identifier = <<>>
    /\ to_stdout = TRUE
    /\ cur_pos = 0
    /\ size = 0
    /\ remaining = 0
    /\ output = <<>>
    /\ stderr = <<>>
    /\ result = "none"
    /\ raised = ""
    /\ in_calls = <<>>
    /\ calls = <<>>
    /\ out_closed = FALSE
    /\ san_out = <<>>

SanitizeNext == sanitize_call

SanitizeSpec == SanitizeInit /\ [][SanitizeNext]_vars

(***************************************************************************)
(* Reading the written text back.                                          *)
(***************************************************************************)
IsPrefix(a, b) == Len(a) <= Len(b) /\ SubSeq(b, 1, Len(a)) = a

\* The lines of a text, each ended by its newline.
Lines(text) ==
    LET parts == Split(text, "\n") IN SubSeq(parts, 1, Len(parts) - 1)

IsByteLine(line) == IsPrefix(BytePrefix, line)

DigitValue(c) == CHOOSE d \in 0..9 : DigitChars[d + 1] = c

RECURSIVE ParseDigits(_)
ParseDigits(s) ==
    IF s = <<>> THEN 0
    ELSE 10 * ParseDigits(SubSeq(s, 1, Len(s) - 1)) + DigitValue(s[Len(s)])

\* The number a decimal numeral denotes, -1 when it is none.
ParseDecimal(s) ==
    IF s # <<>> /\ \A i \in 1..Len(s) : s[i] \in Digits THEN ParseDigits(s) ELSE -1

\* The number in a padded field of a .byte line.
ParseField(field) ==
    ParseDecimal(SelectSeq(field, LAMBDA c : c # " "))

\* The values of one .byte line, in order.
ByteLineValues(line) ==
    LET fields == Split(SubSeq(line, Len(BytePrefix) + 1, Len(line)), ",")
    IN  [i \in 1..Len(fields) |-> ParseField(fields[i])]

\* The .byte lines of a text, in order.
ByteLines(text) == SelectSeq(Lines(text), IsByteLine)

\* The values of all .byte lines of a text, in output order.
WrittenBytes(text) ==
    LET bl == ByteLines(text)
    IN  Concat([i \in 1..Len(bl) |-> ByteLineValues(bl[i])])

SizePrefix(ident) == ident \o <<"_","s","i","z","e",":"," ",".","i","n","t"," ">>

\* The value the text declares for <ident>_size, -1 when it declares none
\* or more than one.
DeclaredSize(text, ident) ==
    LET sl == SelectSeq(Lines(text), LAMBDA l : IsPrefix(SizePrefix(ident), l))
    IN  IF Len(sl) = 1
        THEN ParseDecimal(SubSeq(sl[1], Len(SizePrefix(ident)) + 1, Len(sl[1])))
        ELSE -1

\* The lines of the output grammar before and after the .byte lines.
ExpectedHead(ident, align) ==
    << <<" "," ",".","s","e","c","t","i","o","n"," ",".","r","o","d","a","t","a">>,
       <<" "," ",".","b","a","l","i","g","n"," ">> \o FormatD(align),
       <<" "," ",".","g","l","o","b","a","l"," ">> \o ident,
       <<" "," ",".","g","l","o","b","a","l"," ">> \o ident \o <<"_","e","n","d">>,
       <<" "," ",".","g","l","o","b","a","l"," ">> \o ident \o <<"_","s","i","z","e">>,
       <<>>,
       ident \o <<":">> >>

ExpectedTail(ident, sz) ==
    << <<>>,
       ident \o <<"_","e","n","d",":">>,
       <<>>,
       <<" "," ",".","a","l","i","g","n">>,
       SizePrefix(ident) \o FormatD(sz) >>

\* The stream of a direct call, its payload and the identifier of its name.
TheStream == files[1]
Payload(f) == SubSeq(f.data, f.start + 1, Len(f.data))
ValidParameters == alignment > 0 /\ line_length > 0
HasLegalCharacter(s) == \E i \in 1..Len(s) : s[i] \in LegalChars
Ident(name) == sanitize_identifier(name).value

(***************************************************************************)
(* Claims about bin2s, under Spec.                                         *)
(***************************************************************************)
\* C1: the payload is the bytes from the offset the stream was handed over
\* at to its end. In every state the values of the .byte lines written so
\* far are a prefix of bytes p..n-1; when a call on a stream with p < n has
\* returned, they are exactly bytes p..n-1, each in 0..255, the declared
\* <id>_size is n - p, and it is the number of values written.
C1_PayloadFromOffset ==
    LET f == TheStream
        written == WrittenBytes(output)
    IN  /\ IsPrefix(written, Payload(f))
        /\ (pc = "returned" /\ f.start < Len(f.data)) =>
              /\ written = Payload(f)
              /\ \A i \in 1..Len(written) : written[i] \in 0..255
              /\ DeclaredSize(output, Ident(raw)) = Len(f.data) - f.start
              /\ Len(written) = DeclaredSize(output, Ident(raw))

\* A call on a stream handed over past its first byte has returned, with a
\* payload of two bytes or more.
C1_Witness ==
    /\ pc = "returned"
    /\ result = "True"
    /\ TheStream.start >= 1
    /\ Len(TheStream.data) - TheStream.start >= 2

\* The lines written so far follow the output grammar: the seven lines up to
\* the start label, then .byte lines, then the five lines from the blank
\* line before the end label on, which come only after a .byte line.
C2_Conforms ==
    LET lines == Lines(output)
        n == Len(lines)
        f == TheStream
        head == ExpectedHead(Ident(raw), alignment)
        tail == ExpectedTail(Ident(raw), Len(f.data) - f.start)
        k == Cardinality({i \in 8..n : \A j \in 8..i : IsByteLine(lines[j])})
        rest == SubSeq(lines, 8 + k, n)
    IN  /\ output # <<>> => output[Len(output)] = "\n"
        /\ \A i \in 1..Min(n, 7) : lines[i] = head[i]
        /\ Len(rest) <= 5
        /\ \A i \in 1..Min(Len(rest), 5) : rest[i] = tail[i]
        /\ Len(rest) > 0 => k >= 1
        /\ (pc = "returned" /\ result = "True") => (k >= 1 /\ n = 7 + k + 5)

\* C2: a successful call writes each piece of the module once, in the order
\* of the grammar: what is written only grows, at every moment it is a
\* beginning of preamble, start label, one or more .byte lines, blank line,
\* end label, blank line, .align, size line, and on return it is all of it.
C2_PiecesInOrder ==
    /\ []C2_Conforms
    /\ [][IsPrefix(output, output')]_vars

\* A call has returned after writing two .byte lines.
C2_Witness ==
    /\ pc = "returned"
    /\ result = "True"
    /\ Len(ByteLines(output)) = 2

\* A call with a non-empty payload, valid parameters and a name that
\* sanitizes raises nothing, and when it has returned it returned True and
\* wrote ceil(size / line_length) .byte lines, the last of size mod
\* line_length values, or of line_length values when that is 0.
C3_Lines ==
    LET f == TheStream
        sz == Len(f.data) - f.start
        bl == ByteLines(output)
        last == IF sz % line_length = 0 THEN line_length ELSE sz % line_length
    IN  (sz > 0 /\ ValidParameters /\ HasLegalCharacter(raw)) =>
           /\ pc \in {"bin2s", "sanitize", "measure", "preamble", "loop", "returned"}
           /\ pc = "returned" =>
                 /\ result = "True"
                 /\ Len(bl) = (sz + line_length - 1) \div line_length
                 /\ Len(ByteLineValues(bl[Len(bl)])) = last

\* C3: for a non-empty payload and valid parameters bin2s returns True
\* with exactly ceil(size / line_length) .byte lines, the last of
\* size mod line_length values (line_length when that is 0); every turn of
\* the loop takes at least one byte and never more than are left, so the
\* loop ends.
C3_LineCount ==
    /\ []C3_Lines
    /\ [][(pc = "loop" /\ pc' = "loop") =>
             (remaining' < remaining /\ remaining' >= 0)]_vars

\* Three bytes were written two to a line: two lines, the last of one value.
C3_Witness ==
    /\ pc = "returned"
    /\ result = "True"
    /\ Len(TheStream.data) - TheStream.start = 3
    /\ line_length = 2

\* C4: with no byte between the position and the end, valid parameters and
\* a name that sanitizes, nothing is ever written, the stream stays where
\* it was, nothing is raised, the call goes no further than measuring the
\* payload, and it returns False.
C4_EmptyPayload ==
    LET f == TheStream
    IN  (Len(f.data) - f.start = 0 /\ ValidParameters /\ HasLegalCharacter(raw)) =>
           /\ output = <<>>
           /\ f.pos = f.start
           /\ pc \in {"bin2s", "sanitize", "measure", "returned"}
           /\ pc = "returned" => result = "False"

\* A call on a stream handed over at the end of its two or more bytes has
\* returned False.
C4_Witness ==
    /\ pc = "returned"
    /\ result = "False"
    /\ TheStream.start = Len(TheStream.data)
    /\ Len(TheStream.data) >= 2

\* C7: with alignment <= 0 or line_length <= 0 the call does nothing but
\* raise the ValueError of the offending parameter: nothing is written, no
\* method of the input stream is called, the stream and the parameters are
\* as they were passed, the name is not sanitized and nothing is returned.
C7_RejectsParameters ==
    (alignment <= 0 \/ line_length <= 0) =>
       /\ pc \in {"bin2s", "raised"}
       /\ pc = "raised" =>
             raised = (IF alignment <= 0 THEN AlignmentMessage ELSE LineLengthMessage)
       /\ pc = "bin2s" => raised = ""
       /\ output = <<>>
       /\ in_calls = <<>>
       /\ TheStream.pos = TheStream.start
       /\ identifier = raw
       /\ result = "none"

\* A call with line_length 0, a name with no legal character and an empty
\* payload was rejected for its line_length.
C7_Witness ==
    /\ pc = "raised"
    /\ raised = LineLengthMessage
    /\ alignment > 0
    /\ line_length = 0
    /\ ~HasLegalCharacter(raw)
    /\ TheStream.start = Len(TheStream.data)

(***************************************************************************)
(* Claims about the driver, under DriverSpec.                              *)
(***************************************************************************)
RECURSIVE Chunks(_, _)
\* The payload cut into pieces of n bytes, the last one maybe shorter.
Chunks(data, n) ==
    IF Len(data) <= n THEN <<data>>
    ELSE <<SubSeq(data, 1, n)>> \o Chunks(SubSeq(data, n + 1, Len(data)), n)

\* The module of the output grammar for a non-empty payload.
ModuleText(ident, align, data, n) ==
    LET chunks == Chunks(data, n)
        lines == ExpectedHead(ident, align)
                 \o [i \in 1..Len(chunks) |-> ByteLine(chunks[i])]
                 \o ExpectedTail(ident, Len(data))
    IN  Concat([i \in 1..Len(lines) |-> lines[i] \o <<"\n">>])

\* The modules of the first k files, in argument order, empty files left out.
ModulesOf(k) ==
    Concat([i \in 1..k |->
               IF files[i].data = <<>> THEN <<>>
               ELSE ModuleText(Ident(basename(files[i].name)), alignment,
                               files[i].data, line_length)])

\* The warnings for the empty files among the first k, in argument order.
WarningsOf(k) ==
    Concat([i \in 1..k |->
               IF files[i].data = <<>> THEN Warning(files[i].name) \o <<"\n">>
               ELSE <<>>])

AllNamesSanitize ==
    \A i \in 1..Len(files) : HasLegalCharacter(basename(files[i].name))

\* C8: when every name sanitizes, bin2s is called once per file in argument
\* order and no call raises, so the run never stops at a file; when the
\* loop is at file idx, and at the exit, the error stream holds one warning
\* for each empty file handled so far and the output holds the heading and
\* the modules of the non-empty files handled so far, in argument order.
C8_EveryFileInOrder ==
    AllNamesSanitize =>
       /\ calls = [i \in 1..Len(calls) |-> i]
       /\ pc \in {"main", "for", "bin2s", "sanitize", "measure", "preamble",
                  "loop", "returned", "exit"}
       /\ idx \in 1..(Len(files) + 1)
       /\ pc \notin {"main", "for", "exit"} => (idx <= Len(files) /\ Len(calls) = idx)
       /\ pc = "for" =>
             /\ Len(calls) = idx - 1
             /\ stderr = WarningsOf(idx - 1)
             /\ output = fprint(<<>>, GeneratedBy) \o ModulesOf(idx - 1)
       /\ pc = "exit" =>
             /\ Len(calls) = Len(files)
             /\ stderr = WarningsOf(Len(files))
             /\ output = fprint(<<>>, GeneratedBy) \o ModulesOf(Len(files))

\* A run over an empty file followed by a non-empty one reached its exit.
C8_Witness ==
    /\ pc = "exit"
    /\ Len(files) = 2
    /\ files[1].data = <<>>
    /\ files[2].data # <<>>
    /\ AllNamesSanitize

\* C9: when the run has ended, by its exit or by an exception of bin2s,
\* every input stream opened for it is closed.
C9_InputsReleased ==
    pc \in {"exit", "raised"} => \A i \in 1..Len(files) : files[i].closed

(***************************************************************************)
(* Claims about sanitize_identifier, under SanitizeSpec.                   *)
(***************************************************************************)
WordChars == Letters \cup Digits \cup {"_"}

\* [A-Za-z_][A-Za-z0-9_]*
MatchesName(s) ==
    /\ Len(s) >= 1
    /\ s[1] \in Letters \cup {"_"}
    /\ \A i \in 2..Len(s) : s[i] \in WordChars

\* ^_?[A-Za-z_][A-Za-z0-9_]*$
MatchesResult(s) ==
    \/ MatchesName(s)
    \/ Len(s) >= 1 /\ s[1] = "_" /\ MatchesName(Tail(s))

\* The argument of the i-th call.
Argument(i) == IF i = 1 THEN raw ELSE san_out[i - 1].value

\* C5: a call on a string with a legal character raises nothing, and what
\* it returns matches ^_?[A-Za-z_][A-Za-z0-9_]*$: it is not empty, holds
\* only letters, digits and _, and does not start with a digit.
C5_ResultIsLegal ==
    \A i \in 1..Len(san_out) :
        HasLegalCharacter(Argument(i)) =>
           /\ san_out[i].raised = ""
           /\ MatchesResult(san_out[i].value)
           /\ san_out[i].value # <<>>
           /\ \A j \in 1..Len(san_out[i].value) : san_out[i].value[j] \in WordChars
           /\ san_out[i].value[1] \notin Digits

\* A string that starts with an illegal character, then a digit, then a
\* separator, was sanitized.
C5_Witness ==
    /\ san_out # <<>>
    /\ raw = <<"$", "7", ".">>

\* C6: a call on a string with no legal character raises the ValueError
\* of line 59 and returns nothing.
C6_NoLegalCharacter ==
    \A i \in 1..Len(san_out) :
        ~HasLegalCharacter(Argument(i)) =>
           /\ san_out[i].raised = NoLegalCharacters
           /\ san_out[i].value = <<>>
           /\ Len(san_out) = i

\* A string of illegal characters only was given.
C6_Witness ==
    /\ san_out # <<>>
    /\ raw = <<"$", " ">>

\* C10: for x of the form [_A-Za-z][_A-Za-z0-9]*, sanitizing what
\* sanitizing x returned returns the same.
C10_Idempotent ==
    (MatchesName(raw) /\ Len(san_out) >= 1) =>
       /\ san_out[1].raised = ""
       /\ Len(san_out) = 1 => ENABLED sanitize_call
       /\ Len(san_out) = 2 => san_out[2] = san_out[1]

\* A legal identifier of three characters was sanitized twice.
C10_Witness ==
    /\ Len(san_out) = 2
    /\ raw = <<"_", "7", "a">>

====
